---- MODULE Spec2Model ----
(***************************************************************************)
(* The asynchronous job lifecycle of the AIVORA API server: the route      *)
(* POST /api/generate, the handlers handleImageGeneration and              *)
(* handleVideoGeneration, the detached workers generateImageAsync and      *)
(* generateVideoAsync, the provider adapters (Gemini, Seedream, WAN        *)
(* Animate) with their poll loops, and the status lookup route.            *)
(*                                                                         *)
(* Every awaited external call of the code (store write, provider call     *)
(* with the read of its body, timer, blob transfer) is one step: the step  *)
(* fires when the call settles, its outcome is chosen by the environment,  *)
(* and the code that runs synchronously up to the next call is part of the *)
(* same step.                                                              *)
(***************************************************************************)
EXTENDS Integers, Sequences, FiniteSets, TLC

\* ------------------------------------------------------------------ bounds

\* Number of requests the clients send.
MaxReq == 2
\* Number of distinct ids nanoid(10) can produce in the model.
NumIds == 2
\* Cap on the poll loops' attempt budget (the defaults are 60 and 30).
AttemptCap == 2
\* The last minute the clock reaches.
MaxMinute == 1

\* ------------------------------------------------------- program constants

\* pollWanTaskResult(taskId, apiKey, maxAttempts = 60)
WanMaxAttempts == 60
\* pollSeedreamTask / pollGeminiTask (taskId, apiKey, maxAttempts = 30)
ImageMaxAttempts == 30

Reqs == 1..MaxReq
JobIds == {<<"job", n>> : n \in 1..NumIds}
NoId == <<"job", 0>>

Min(a, b) == IF a < b THEN a ELSE b

\* ------------------------------------------------------------- AI_MODELS

GEMINI_IMAGE == "Gemini 3 Pro Image"
SEEDREAM_45_EDIT == "Seedream 4.5 Edit"
WAN_22_ANIMATE == "WAN 2.2 Animate"
KLING_25 == "Kling 2.5"
VEO_31 == "Veo 3.1"

\* A faulty selection: the two image models are swapped.
selectImageModelSwapped(enableNSFW) ==
  IF enableNSFW THEN GEMINI_IMAGE ELSE SEEDREAM_45_EDIT

\* selectImageModel(enableNSFW)
selectImageModel(enableNSFW) ==
  IF enableNSFW THEN SEEDREAM_45_EDIT ELSE GEMINI_IMAGE

\* selectVideoModel(modelName): modelMap[modelName] || WAN_22_ANIMATE
selectVideoModel(modelName) ==
  CASE modelName = "wan-22" -> WAN_22_ANIMATE
    [] modelName = "kling-25" -> KLING_25
    [] modelName = "veo-31" -> VEO_31
    [] OTHER -> WAN_22_ANIMATE

\* ------------------------------------------------------ request bodies

\* null (or undefined): the value of an absent field; "" is the empty string.
Null == "<null>"

\* A body of POST /api/generate. The shot type is Null, "" or another string;
\* of the other fields "" stands for an absent (falsy) one.
Body(mode, platform, sourceUrl, shotType, nsfw, videoModel) ==
  [mode |-> mode, platform |-> platform, sourceUrl |-> sourceUrl,
   shotType |-> shotType, enableNSFW |-> nsfw, videoModel |-> videoModel]

SrcUrl == "https://x/img.png"

NoBody == Body("none", "", "", Null, FALSE, "")

\* The bodies the clients send: one plain image request and the bodies that
\* differ from it in one field.
Bodies ==
  { Body("image", "pinterest", SrcUrl, Null, FALSE, ""),
    Body("image", "pinterest", SrcUrl, Null, TRUE, ""),
    Body("image", "pinterest", SrcUrl, "close-up", FALSE, ""),
    Body("image", "pinterest", SrcUrl, "half-body", FALSE, ""),
    Body("image", "pinterest", SrcUrl, "full-body", FALSE, ""),
    Body("image", "pinterest", SrcUrl, "half", FALSE, ""),
    Body("image", "pinterest", SrcUrl, "wide", FALSE, ""),
    Body("image", "pinterest", SrcUrl, "", FALSE, ""),
    Body("video", "pinterest", SrcUrl, Null, FALSE, ""),
    Body("video", "pinterest", SrcUrl, Null, FALSE, "kling-25"),
    Body("video", "pinterest", SrcUrl, Null, FALSE, "veo-31"),
    Body("video", "pinterest", SrcUrl, Null, TRUE, "wan-22"),
    Body("video", "pinterest", SrcUrl, Null, FALSE, "sora"),
    Body("audio", "pinterest", SrcUrl, Null, FALSE, ""),
    Body("", "pinterest", SrcUrl, Null, FALSE, ""),
    Body("image", "", SrcUrl, Null, FALSE, ""),
    Body("image", "myspace", SrcUrl, Null, FALSE, ""),
    Body("image", "pinterest", "", Null, FALSE, "") }

\* const validPlatforms = ['pinterest', 'tiktok', 'instagram', 'generic']
validPlatforms == {"pinterest", "tiktok", "instagram", "generic"}

\* A faulty normalisation without the guard of falsy values: the empty string
\* is returned as it is.
normalizeShotTypeNoGuard(shotType) ==
  CASE shotType = "close-up" -> "close"
    [] shotType = "half-body" -> "half"
    [] shotType = "full-body" -> "full"
    [] OTHER -> shotType

\* normalizeShotType(shotType): null for a falsy value (null, undefined, ""),
\* the mapped value for the three extension values, any other string
\* unchanged.
normalizeShotType(shotType) ==
  CASE shotType \in {Null, ""} -> Null
    [] shotType = "close-up" -> "close"
    [] shotType = "half-body" -> "half"
    [] shotType = "full-body" -> "full"
    [] OTHER -> shotType

\* ------------------------------------------------------------ messages

\* An error message is a sequence of the pieces the code concatenates.
NoMsg == <<>>
MissingFieldsMsg == <<"Missing required fields: mode, platform, sourceUrl">>
InvalidModeMsg == <<"Invalid mode. Must be \"image\" or \"video\"">>
InvalidPlatformMsg == <<"Invalid platform. Must be one of: ", "pinterest, tiktok, instagram, generic">>
StoreErrMsg == <<"store error">>
StoreRaiseMsg == <<"fetch failed">>
FailedToCreateJob(m) == <<"Failed to create job: ">> \o m

\* ------------------------------------------------------------ the route

\* A faulty validation: the check of the mode's value is missing.
ValidationErrorNoModeCheck(body) ==
  IF body.mode = "" \/ body.platform = "" \/ body.sourceUrl = ""
  THEN MissingFieldsMsg
  ELSE IF body.platform \notin validPlatforms
  THEN InvalidPlatformMsg
  ELSE NoMsg

\* router.post('/'): the three validations, in the code's order; NoMsg when
\* the body passes.
ValidationError(body) ==
  IF body.mode = "" \/ body.platform = "" \/ body.sourceUrl = ""
  THEN MissingFieldsMsg
  ELSE IF body.mode \notin {"image", "video"}
  THEN InvalidModeMsg
  ELSE IF body.platform \notin validPlatforms
  THEN InvalidPlatformMsg
  ELSE NoMsg

\* ------------------------------------------------------------- the store

\* A row of generation_jobs; status "absent" stands for no row.
JobRow(mode, shot, status) ==
  [status |-> status, error_message |-> NoMsg, media_generation_id |-> 0,
   mode |-> mode, shot_type |-> shot]
NoRow == JobRow("", Null, "absent")

\* What a store call (insert, update) can answer: it is applied and says so
\* ("ok"), it returns an error object and changes nothing ("error"), it is
\* applied but its answer does not arrive, so that the client returns an
\* error object ("lost"), or the awaited call rejects and changes nothing
\* ("raise").
WriteOutcomes == {"ok", "error", "lost", "raise"}

\* The store has applied the write.
Applied(out) == out \in {"ok", "lost"}

\* shot_type: shotType || null
OrNull(v) == IF v \in {Null, ""} THEN Null ELSE v

\* shot_type text check (shot_type in ('close', 'half', 'full'))
ShotTypeCheck(shot) == shot \in {Null, "close", "half", "full"}

\* ---------------------------------------------------------------- state

VARIABLES
  req,     \* req[r]: the body of request r, NoBody before it arrives
  resp,    \* resp[r]: the HTTP response to request r; code 0 is none yet
  hpc,     \* hpc[r]: where the handler of request r stands
  jobs,    \* the generation_jobs table: row per id
  media,   \* the media_generations table: a set of rows
  hjob,    \* hjob[r]: the id nanoid gave the handler of request r
  hshot,   \* hshot[r]: the shot type the route passes to the handler
  wk,      \* wk[r]: the worker launched by the handler of request r
  lookup,  \* the last answer of GET /api/generate/status/:jobId
  health,  \* GET /api/health/detailed: where it stands and its last answer
  now      \* the server's clock, in minutes

vars == <<req, resp, hpc, jobs, media, hjob, hshot, wk, lookup, health, now>>

NoResp == [code |-> 0, jobId |-> NoId, status |-> "", error |-> NoMsg]
NoLookup == [jobId |-> NoId, status |-> "", stored |-> "", error |-> NoMsg,
             storedError |-> NoMsg, threw |-> FALSE]

\* No status answer received yet.
NoAnswer ==
  [kind |-> "none", text |-> "", data |-> FALSE, status |-> "", outputs |-> <<>>,
   error |-> ""]

\* No submission answer received yet.
NoSubmit ==
  [kind |-> "none", status |-> "", text |-> "", task |-> FALSE, outputs |-> <<>>]

\* The worker of a request that has (not yet) launched one.
NoWorker ==
  [pc |-> "none", jobId |-> NoId, model |-> "", adapter |-> "", shot |-> "",
   face |-> FALSE, profile |-> FALSE,
   maxAttempts |-> 0, i |-> 0, sleeps |-> 0, checks |-> 0,
   pendings |-> 0, okAt |-> 0, okUrl |-> "", failAt |-> 0,
   failReason |-> "", last |-> NoAnswer, sub |-> NoSubmit, poll |-> "none",
   url |-> "", durable |-> FALSE, submits |-> 0, calls |-> 0,
   err |-> NoMsg, cause |-> "none", mediaId |-> 0, cw |-> "none",
   fw |-> "none", key |-> <<>>]

\* The detailed health check before any request: no check outstanding, no
\* answer sent (code 0).
NoHealth ==
  [pc |-> "idle", mediaVault |-> "unknown", influencerMgmt |-> "unknown",
   code |-> 0, status |-> "", supabase |-> "unknown"]

Init ==
  /\ req = [r \in Reqs |-> NoBody]
  /\ resp = [r \in Reqs |-> NoResp]
  /\ hpc = [r \in Reqs |-> "idle"]
  /\ jobs = [j \in JobIds |-> NoRow]
  /\ media = {}
  /\ hjob = [r \in Reqs |-> NoId]
  /\ hshot = [r \in Reqs |-> Null]
  /\ wk = [r \in Reqs |-> NoWorker]
  /\ lookup = NoLookup
  /\ health = NoHealth
  /\ now = 0

\* ------------------------------------------------------------ scheduling

\* A faulty handler: it awaits the worker before it returns.
ReturnReadyAwaited(r) == wk[r].pc \in {"done", "rejected"}

\* generateImageAsync(...) / generateVideoAsync(...) is called without await:
\* the handler's return does not depend on where the worker stands.
ReturnReady(r) == TRUE

\* The continuation of a handler whose awaited insert has settled is a
\* microtask: it runs before the event loop delivers any other completion.
MicrotaskPending == \E r \in Reqs : hpc[r] = "launched" /\ ReturnReady(r)
IOReady == ~MicrotaskPending

\* ------------------------------------------------------- POST /api/generate

\* nanoid(10): the id is one an earlier call returned (a collision) or a new
\* one; new ids are interchangeable, so the least of them stands for all.
UsedIds == {hjob[r] : r \in Reqs} \ {NoId}
NewIds == {j \in JobIds \ UsedIds : \A k \in JobIds \ UsedIds : j[2] <= k[2]}
nanoid == UsedIds \cup NewIds

\* router.post('/'): validation, normalisation of the shot type, then the
\* handler up to its awaited insert.
PostGenerate(r, body, jid) ==
  /\ IOReady
  /\ hpc[r] = "idle"
  /\ jid \in nanoid
  /\ req' = [req EXCEPT ![r] = body]
  /\ IF ValidationError(body) # NoMsg
     THEN /\ resp' = [resp EXCEPT ![r] =
                 [code |-> 400, jobId |-> NoId, status |-> "",
                  error |-> ValidationError(body)]]
          /\ hpc' = [hpc EXCEPT ![r] = "done"]
          /\ hjob' = hjob
          /\ hshot' = hshot
     ELSE /\ resp' = resp
          /\ hpc' = [hpc EXCEPT ![r] = "insert"]
          /\ hjob' = [hjob EXCEPT ![r] = jid]
          /\ hshot' = [hshot EXCEPT ![r] = normalizeShotType(body.shotType)]
  /\ UNCHANGED <<jobs, media, wk, lookup, health, now>>

\* A faulty store: the insert overwrites a row that has the same id.
InsertJobOutcomesUpsert(jid, shot) ==
  IF ShotTypeCheck(shot) THEN WriteOutcomes ELSE {"error", "raise"}

\* generation_jobs: id text primary key, and the check on shot_type: an
\* insert of an existing id or of another shot type is not applied.
InsertJobOutcomes(jid, shot) ==
  IF jobs[jid].status = "absent" /\ ShotTypeCheck(shot)
  THEN WriteOutcomes
  ELSE {"error", "raise"}

\* The model the handler selects for the body.
SelectedModel(body) ==
  IF body.mode = "image"
  THEN selectImageModel(body.enableNSFW)
  ELSE selectVideoModel(IF body.videoModel = "" THEN "wan-22" ELSE body.videoModel)

\* The adapter the worker routes to: generateImageAsync tests the model's
\* name for Gemini, generateVideoAsync always calls WAN Animate.
AdapterOf(mode, model) ==
  IF mode = "image"
  THEN IF model = GEMINI_IMAGE THEN "gemini" ELSE "seedream"
  ELSE "wan"

\* shotType || 'close' (image), shotType || 'full' (video)
WorkerShot(mode, shot) ==
  IF shot \notin {Null, ""} THEN shot ELSE IF mode = "image" THEN "close" ELSE "full"

\* The maxAttempts default of the adapter's poll function.
DefaultMaxAttempts(adapter) ==
  IF adapter = "wan" THEN WanMaxAttempts ELSE ImageMaxAttempts

\* The same default, capped.
PollBudget(adapter) == Min(DefaultMaxAttempts(adapter), AttemptCap)

\* The worker as the handler's un-awaited call leaves it: at its first
\* await, the update of the job to processing.
LaunchWorker(jid, body) ==
  [NoWorker EXCEPT
     !.pc = "mark_processing", !.jobId = jid,
     !.model = SelectedModel(body),
     !.adapter = AdapterOf(body.mode, SelectedModel(body)),
     !.shot = WorkerShot(body.mode, normalizeShotType(body.shotType))]

\* return { jobId, status: 'pending', message, estimatedTime }
HandlerResult(jid) ==
  [code |-> 200, jobId |-> jid, status |-> "pending", error |-> NoMsg]

\* A faulty handler: the error object of the insert is not looked at.
JobErrorIgnored(out) == FALSE

\* const { data: job, error: jobError } = await ...insert(...).select().single();
\* if (jobError) throw ...: the insert's answer carries an error (a rejected
\* call throws by itself).
JobError(out) == out # "ok"

\* handleImageGeneration / handleVideoGeneration after the awaited insert:
\* on an error object the handler throws and the route answers 500; otherwise
\* it selects the model and calls the worker.
HandlerInsertDone(r, out) ==
  /\ IOReady
  /\ hpc[r] = "insert"
  /\ out \in InsertJobOutcomes(hjob[r], OrNull(hshot[r]))
  /\ jobs' = IF Applied(out)
             THEN [jobs EXCEPT ![hjob[r]] =
                     JobRow(req[r].mode, OrNull(hshot[r]), "pending")]
             ELSE jobs
  /\ IF ~JobError(out)
     THEN /\ wk' = [wk EXCEPT ![r] = LaunchWorker(hjob[r], req[r])]
          /\ hpc' = [hpc EXCEPT ![r] = "launched"]
          /\ resp' = resp
     ELSE /\ resp' = [resp EXCEPT ![r] =
                 [code |-> 500, jobId |-> NoId, status |-> "",
                  error |-> IF out = "raise" THEN StoreRaiseMsg
                            ELSE FailedToCreateJob(StoreErrMsg)]]
          /\ hpc' = [hpc EXCEPT ![r] = "done"]
          /\ wk' = wk
  /\ UNCHANGED <<req, media, hjob, hshot, lookup, health, now>>

\* The handler returns and the route sends res.json({success, jobId, status}).
HandlerReturn(r) ==
  /\ hpc[r] = "launched"
  /\ ReturnReady(r)
  /\ resp' = [resp EXCEPT ![r] = HandlerResult(hjob[r])]
  /\ hpc' = [hpc EXCEPT ![r] = "done"]
  /\ UNCHANGED <<req, jobs, media, hjob, hshot, wk, lookup, health, now>>

\* ------------------------------------------------------ external answers

ProviderUrls == {"x1", "x2"}

\* The outputs array of a provider answer.
Outputs == {<<>>, <<"x1">>, <<"x2", "x1">>}

\* What the submission call can answer: the fetch rejects ("network"), a
\* non-2xx response with its status and body text ("http"), or a 2xx body
\* that may carry a task handle and may carry outputs ("body").
SubmitAnswers ==
  {[kind |-> "network", status |-> "", text |-> "", task |-> FALSE, outputs |-> <<>>]}
  \cup {[kind |-> "http", status |-> st, text |-> "upstream down", task |-> FALSE,
         outputs |-> <<>>] : st \in {"503", "400"}}
  \cup {[kind |-> "body", status |-> "200", text |-> "", task |-> t, outputs |-> o] :
          t \in BOOLEAN, o \in Outputs}

\* The status strings a provider answers with.
ProviderStatuses == {"processing", "completed", "succeeded", "failed", "error"}

\* What a status check can answer: the fetch rejects, a non-2xx response, or
\* a 2xx body with (or without) a data object holding status, outputs, error.
PollAnswers ==
  {[kind |-> "network", text |-> "", data |-> FALSE, status |-> "", outputs |-> <<>>,
    error |-> ""]}
  \cup {[kind |-> "http", text |-> "Service Unavailable", data |-> FALSE, status |-> "",
         outputs |-> <<>>, error |-> ""]}
  \cup {[kind |-> "body", text |-> "", data |-> d, status |-> st, outputs |-> o,
         error |-> e] :
          d \in BOOLEAN, st \in ProviderStatuses,
          o \in Outputs, e \in {"", "content rejected"}}

\* What a blob download or upload can answer.
BlobOutcomes == {"ok", "fail", "raise"}

\* ------------------------------------------------------ worker's messages

NoFaceMsg(adapter) ==
  IF adapter = "wan"
  THEN <<"No face reference images found. Please add reference images to the database.">>
  ELSE <<"No face reference images found.">>
ProfileTypeErrorMsg == <<"Cannot read properties of null">>
DownloadFailMsg == <<"Failed to download file: ", "Not Found">>
UploadFailMsg == <<"Failed to upload to Supabase: ", "storage error">>
ApiName(adapter) ==
  CASE adapter = "wan" -> "WAN API error "
    [] adapter = "seedream" -> "Seedream API error "
    [] OTHER -> "Gemini API error "
\* A faulty message: the upstream status is left out.
ApiErrorMsgNoStatus(adapter, status, text) == <<ApiName(adapter), text>>

\* `${name} API error ${response.status}: ${errorText}`
ApiErrorMsg(adapter, status, text) == <<ApiName(adapter), status, ": ", text>>
UnexpectedFormatMsg == <<"Unexpected API response format">>
StatusCheckFailMsg(text) == <<"Failed to check task status: ", text>>
TimedOutMsg == <<"Task timed out">>
DefaultFailMsg(adapter) ==
  CASE adapter = "wan" -> "WAN animation failed"
    [] adapter = "seedream" -> "Seedream generation failed"
    [] OTHER -> "Gemini generation failed"
\* A faulty message: the provider's reason is dropped.
PollFailedMsgDefault(adapter, error) == <<DefaultFailMsg(adapter)>>

\* new Error(result.data.error || '... failed')
PollFailedMsg(adapter, error) ==
  IF error # "" THEN <<error>> ELSE <<DefaultFailMsg(adapter)>>

\* ------------------------------------------------------------ the worker

\* One more external call of the worker has settled.
Step(w) == [w EXCEPT !.calls = @ + 1]

\* A faulty worker: after a failed submission it submits once more.
ThrowResubmit(w, msg, cause) ==
  IF cause = "submit" /\ w.submits < 2
  THEN [w EXCEPT !.pc = "submit", !.submits = @ + 1]
  ELSE [w EXCEPT !.pc = "catch", !.err = msg, !.cause = cause]

\* A faulty catch path: every error is recorded with one general message.
ThrowGeneric(w, msg, cause) ==
  [w EXCEPT !.pc = "catch", !.err = <<"Generation failed">>, !.cause = cause]

\* An error thrown inside the worker's try block: the catch block runs up to
\* its awaited update of the job to failed.
Throw(w, msg, cause) == [w EXCEPT !.pc = "catch", !.err = msg, !.cause = cause]

\* .update({ status: 'processing', updated_at })
ProcessingUpdate(row) == [row EXCEPT !.status = "processing"]

\* .update({ status: 'completed', media_generation_id: mediaGen.id, updated_at })
CompletedUpdate(row, id) ==
  [row EXCEPT !.status = "completed", !.media_generation_id = id]

\* .update({ status: 'failed', error_message: error.message, updated_at })
FailedUpdate(row, msg) ==
  [row EXCEPT !.status = "failed", !.error_message = msg]

\* A faulty update without the filter on the id: every row is changed.
UpdateJobAllRows(jid, new) ==
  [j \in JobIds |-> IF jobs[j].status = "absent" THEN jobs[j] ELSE new]

\* .eq('id', jobId): the update changes the row with that id, if there is one.
UpdateJob(jid, new) ==
  IF jobs[jid].status = "absent" THEN jobs ELSE [jobs EXCEPT ![jid] = new]

\* generateImageAsync / generateVideoAsync: the awaited update to processing
\* settles; its result is not inspected. The adapter is called and runs up to
\* its query of the reference images.
MarkProcessingDone(r, out) ==
  /\ IOReady
  /\ wk[r].pc = "mark_processing"
  /\ out \in WriteOutcomes
  /\ jobs' = IF Applied(out)
             THEN UpdateJob(wk[r].jobId, ProcessingUpdate(jobs[wk[r].jobId]))
             ELSE jobs
  /\ wk' = [wk EXCEPT ![r] =
              IF out = "raise" THEN Throw(Step(@), StoreRaiseMsg, "store")
              ELSE [Step(@) EXCEPT !.pc = "refs"]]
  /\ UNCHANGED <<req, resp, hpc, media, hjob, hshot, lookup, health, now>>

\* getReferenceImages(persona, shotType): face references are fetched when
\* the shot type is close, half or full; the query finds some or none.
FaceRefs(shot, found) == shot \in {"close", "half", "full"} /\ found

RefsDone(r, found) ==
  /\ IOReady
  /\ wk[r].pc = "refs"
  /\ wk' = [wk EXCEPT ![r] =
              [Step(@) EXCEPT !.pc = "profile", !.face = FaceRefs(wk[r].shot, found)]]
  /\ UNCHANGED <<req, resp, hpc, jobs, media, hjob, hshot, lookup, health, now>>

\* getInfluencerProfile(persona) settles (with the row or with null); then
\* the adapter throws when no face reference was found, else it starts the
\* download of the source.
ProfileDone(r, found) ==
  /\ IOReady
  /\ wk[r].pc = "profile"
  /\ wk' = [wk EXCEPT ![r] =
              IF ~@.face
              THEN Throw(Step(@), NoFaceMsg(@.adapter), "refs")
              ELSE [Step(@) EXCEPT !.pc = "download_src", !.profile = found]]
  /\ UNCHANGED <<req, resp, hpc, jobs, media, hjob, hshot, lookup, health, now>>

\* downloadFile(sourceUrl) settles; on success the upload of the temporary
\* copy starts.
DownloadSrcDone(r, out) ==
  /\ IOReady
  /\ wk[r].pc = "download_src"
  /\ out \in BlobOutcomes
  /\ wk' = [wk EXCEPT ![r] =
              CASE out = "ok" -> [Step(@) EXCEPT !.pc = "upload_src"]
                [] out = "fail" -> Throw(Step(@), DownloadFailMsg, "blob")
                [] OTHER -> Throw(Step(@), StoreRaiseMsg, "blob")]
  /\ UNCHANGED <<req, resp, hpc, jobs, media, hjob, hshot, lookup, health, now>>

\* uploadToSupabase(blob, tempFilename, 'temp') settles; on success the
\* prompt is built from the profile (a null profile throws) and the
\* submission call is issued.
UploadSrcDone(r, out) ==
  /\ IOReady
  /\ wk[r].pc = "upload_src"
  /\ out \in BlobOutcomes
  /\ wk' = [wk EXCEPT ![r] =
              CASE out = "fail" -> Throw(Step(@), UploadFailMsg, "blob")
                [] out = "raise" -> Throw(Step(@), StoreRaiseMsg, "blob")
                [] OTHER ->
                   IF ~@.profile
                   THEN Throw(Step(@), ProfileTypeErrorMsg, "profile")
                   ELSE [Step(@) EXCEPT !.pc = "submit", !.submits = @ + 1]]
  /\ UNCHANGED <<req, resp, hpc, jobs, media, hjob, hshot, lookup, health, now>>

\* A faulty loop body: the status check comes first, without the sleep.
PollLoopFirstCheck == "poll_check"

\* The first await of the poll loop's body is the sleep:
\* await new Promise(resolve => setTimeout(resolve, ...)).
PollLoopFirst == "poll_sleep"

\* A faulty adapter: the immediate result is tested before the task handle.
AfterSubmitOutputsFirst(w, ans) ==
  CASE ans.kind = "network" -> Throw(w, StoreRaiseMsg, "submit")
    [] ans.kind = "http" ->
         Throw(w, ApiErrorMsg(w.adapter, ans.status, ans.text), "submit")
    [] ans.kind = "body" /\ Len(ans.outputs) > 0 ->
         [w EXCEPT !.pc = "download_out", !.url = ans.outputs[1]]
    [] ans.kind = "body" /\ ans.task /\ Len(ans.outputs) = 0 ->
         [w EXCEPT !.pc = PollLoopFirst, !.i = 0,
                   !.maxAttempts = PollBudget(w.adapter)]
    [] OTHER -> Throw(w, UnexpectedFormatMsg, "submit")

\* The adapter after the submission call has settled: a rejected fetch and a
\* non-2xx response throw; a body with a task handle starts the poll loop
\* (first its sleep); a body with outputs only gives the first output; any
\* other body throws.
AfterSubmit(w, ans) ==
  CASE ans.kind = "network" -> Throw(w, StoreRaiseMsg, "submit")
    [] ans.kind = "http" ->
         Throw(w, ApiErrorMsg(w.adapter, ans.status, ans.text), "submit")
    [] ans.kind = "body" /\ ans.task ->
         [w EXCEPT !.pc = PollLoopFirst, !.i = 0,
                   !.maxAttempts = PollBudget(w.adapter)]
    [] ans.kind = "body" /\ ~ans.task /\ Len(ans.outputs) > 0 ->
         [w EXCEPT !.pc = "download_out", !.url = ans.outputs[1]]
    [] OTHER -> Throw(w, UnexpectedFormatMsg, "submit")

\* A faulty adapter: it records the job as failed itself.
AdapterJobsMarksFailed(w) ==
  UpdateJob(w.jobId, FailedUpdate(jobs[w.jobId], <<"adapter failed">>))

\* The generation_jobs table after a step of an adapter or of its poll loop:
\* as it was. The adapters are given no job id and use the store only for the
\* reference tables and the blob bucket; they return or throw.
AdapterJobs(w) == jobs

SubmitDone(r, ans) ==
  /\ IOReady
  /\ wk[r].pc = "submit"
  /\ ans \in SubmitAnswers
  /\ wk' = [wk EXCEPT ![r] = AfterSubmit([Step(@) EXCEPT !.sub = ans], ans)]
  /\ jobs' = AdapterJobs(wk[r])
  /\ UNCHANGED <<req, resp, hpc, media, hjob, hshot, lookup, health, now>>

\* ------------------------------------------------------------ poll loops

\* What a status answer says, read as the provider's contract states it:
\* success is a completed status that carries an output URL, failure is a
\* failed status, and every other 2xx answer says the task is still pending.
ReportsSuccess(ans) ==
  ans.kind = "body" /\ ans.data /\ ans.status = "completed" /\ Len(ans.outputs) > 0
ReportsFailure(ans) == ans.kind = "body" /\ ans.data /\ ans.status = "failed"
ReportsPending(ans) ==
  ans.kind = "body" /\ ~ReportsSuccess(ans) /\ ~ReportsFailure(ans)

\* The record of what the status checks of a worker have answered so far.
Observe(w, ans) ==
  [w EXCEPT !.checks = @ + 1, !.last = ans,
            !.pendings = IF ReportsPending(ans) THEN @ + 1 ELSE @,
            !.okAt = IF @ = 0 /\ ReportsSuccess(ans) THEN w.checks + 1 ELSE @,
            !.okUrl = IF w.okAt = 0 /\ ReportsSuccess(ans) THEN ans.outputs[1] ELSE @,
            !.failAt = IF @ = 0 /\ ReportsFailure(ans) THEN w.checks + 1 ELSE @,
            !.failReason = IF w.failAt = 0 /\ ReportsFailure(ans) THEN ans.error ELSE @]

\* await new Promise(resolve => setTimeout(resolve, ...)) settles and the
\* status check is issued.
PollSleepDone(r) ==
  /\ IOReady
  /\ wk[r].pc = "poll_sleep"
  /\ wk' = [wk EXCEPT ![r] = [Step(@) EXCEPT !.pc = "poll_check", !.sleeps = @ + 1]]
  /\ UNCHANGED <<req, resp, hpc, jobs, media, hjob, hshot, lookup, health, now>>

\* A faulty loop: for (let i = 0; i <= maxAttempts; i++).
LoopContinuesOffByOne(i, maxAttempts) == i <= maxAttempts

\* for (let i = 0; i < maxAttempts; i++): the test after i++.
LoopContinues(i, maxAttempts) == i < maxAttempts

\* A faulty result: the last output instead of outputs[0].
PollResultUrlLast(ans) == ans.outputs[Len(ans.outputs)]

\* return { videoUrl: result.data.outputs[0] } / { imageUrl: ... }
PollResultUrl(ans) == ans.outputs[1]

\* A faulty test: the status error counts as failed too.
TaskFailedOrError(ans) ==
  ans.kind = "body" /\ ans.data /\ ans.status \in {"failed", "error"}

\* if (result.data && result.data.status === 'completed'
\*     && result.data.outputs && result.data.outputs.length > 0)
TaskCompleted(ans) ==
  ans.kind = "body" /\ ans.data /\ ans.status = "completed" /\ Len(ans.outputs) > 0

\* if (result.data && result.data.status === 'failed')
TaskFailed(ans) == ans.kind = "body" /\ ans.data /\ ans.status = "failed"

\* pollWanTaskResult / pollSeedreamTask / pollGeminiTask after one status
\* check has settled: a rejected fetch and a non-2xx response throw; a
\* completed status with outputs returns the first output; a failed status
\* throws the provider's error (or the default text); anything else goes
\* round the loop, which throws 'Task timed out' when i reaches maxAttempts.
AfterPollCheck(w, ans) ==
  CASE ans.kind = "network" ->
         Throw([w EXCEPT !.poll = "error"], StoreRaiseMsg, "poll_error")
    [] ans.kind = "http" ->
         Throw([w EXCEPT !.poll = "error"], StatusCheckFailMsg(ans.text), "poll_error")
    [] TaskCompleted(ans) ->
         [w EXCEPT !.pc = "download_out", !.poll = "completed",
                   !.url = PollResultUrl(ans)]
    [] ~TaskCompleted(ans) /\ TaskFailed(ans) ->
         Throw([w EXCEPT !.poll = "failed"],
               PollFailedMsg(w.adapter, ans.error), "poll_failed")
    [] OTHER ->
         IF LoopContinues(w.i + 1, w.maxAttempts)
         THEN [w EXCEPT !.pc = PollLoopFirst, !.i = @ + 1]
         ELSE Throw([w EXCEPT !.i = @ + 1, !.poll = "timedout"],
                    TimedOutMsg, "poll_timeout")

PollCheckDone(r, ans) ==
  /\ IOReady
  /\ wk[r].pc = "poll_check"
  /\ ans \in PollAnswers
  /\ wk' = [wk EXCEPT ![r] = Observe(AfterPollCheck(Step(@), ans), ans)]
  /\ jobs' = AdapterJobs(wk[r])
  /\ UNCHANGED <<req, resp, hpc, media, hjob, hshot, lookup, health, now>>

\* The earlier wavespeed service (the v1 task endpoint): its poll functions
\* read the status, the output and the error at the top level of the body. A
\* body with a data object has no top-level status; a body without one
\* carries the fields itself.

\* if (result.status === 'completed')
TaskCompletedV1(ans) == ans.kind = "body" /\ ~ans.data /\ ans.status = "completed"

\* if (result.status === 'failed')
TaskFailedV1(ans) == ans.kind = "body" /\ ~ans.data /\ ans.status = "failed"

\* videoUrl: result.output?.video_url || result.video_url (imageUrl likewise):
\* the URL when the body carries one, undefined ("") when it carries none.
PollResultUrlV1(ans) == IF Len(ans.outputs) > 0 THEN ans.outputs[1] ELSE ""

\* The earlier pollWanTaskResult / pollSeedreamTask after one status check:
\* a completed status returns at once, with whatever URL the body has.
AfterPollCheckV1(w, ans) ==
  CASE ans.kind = "network" ->
         Throw([w EXCEPT !.poll = "error"], StoreRaiseMsg, "poll_error")
    [] ans.kind = "http" ->
         Throw([w EXCEPT !.poll = "error"], StatusCheckFailMsg(ans.text), "poll_error")
    [] TaskCompletedV1(ans) ->
         [w EXCEPT !.pc = "download_out", !.poll = "completed",
                   !.url = PollResultUrlV1(ans)]
    [] ~TaskCompletedV1(ans) /\ TaskFailedV1(ans) ->
         Throw([w EXCEPT !.poll = "failed"],
               PollFailedMsg(w.adapter, ans.error), "poll_failed")
    [] OTHER ->
         IF LoopContinues(w.i + 1, w.maxAttempts)
         THEN [w EXCEPT !.pc = PollLoopFirst, !.i = @ + 1]
         ELSE Throw([w EXCEPT !.i = @ + 1, !.poll = "timedout"],
                    TimedOutMsg, "poll_timeout")

PollCheckDoneV1(r, ans) ==
  /\ IOReady
  /\ wk[r].pc = "poll_check"
  /\ ans \in PollAnswers
  /\ wk' = [wk EXCEPT ![r] =
              [AfterPollCheckV1(Step(@), ans) EXCEPT !.checks = @ + 1, !.last = ans]]
  /\ jobs' = AdapterJobs(wk[r])
  /\ UNCHANGED <<req, resp, hpc, media, hjob, hshot, lookup, health, now>>

\* downloadFile(result url) settles; on success the upload to the gallery
\* starts.
DownloadOutDone(r, out) ==
  /\ IOReady
  /\ wk[r].pc = "download_out"
  /\ out \in BlobOutcomes
  /\ wk' = [wk EXCEPT ![r] =
              CASE out = "ok" -> [Step(@) EXCEPT !.pc = "upload_out"]
                [] out = "fail" -> Throw(Step(@), DownloadFailMsg, "blob")
                [] OTHER -> Throw(Step(@), StoreRaiseMsg, "blob")]
  /\ UNCHANGED <<req, resp, hpc, jobs, media, hjob, hshot, lookup, health, now>>

\* downloadFile(result.videoUrl) of the earlier service settles: when the URL
\* is undefined the fetch rejects.
DownloadResultDoneV1(r, out) ==
  /\ wk[r].url = "" => out = "raise"
  /\ DownloadOutDone(r, out)

\* const DEFAULT_PERSONA = 'arisa'; persona || settings.persona ||
\* DEFAULT_PERSONA: the route passes no persona and the bodies carry none in
\* their settings.
DEFAULT_PERSONA == "arisa"

\* generateBatchId(persona): `${persona}_API_${yyyymmdd}_${hhmm}`, the date
\* and the time of day down to the minute.
generateBatchId(persona, minute) == <<persona, "_API_", minute>>

\* const uniqueKey = `${batchId}_scene1_v${variationId}`, variationId = 1
UniqueKey(batchId) == batchId \o <<"_scene1_v", 1>>

\* filename: `${uniqueKey}.png` (image worker), `${uniqueKey}.mp4` (video)
Filename(uniqueKey, adapter) ==
  uniqueKey \o <<IF adapter = "wan" THEN ".mp4" ELSE ".png">>

\* uploadToSupabase(blob, finalFilename, folder) settles; on success the
\* adapter returns the public URL and the worker issues the insert of the
\* media_generations row.
UploadOutDone(r, out) ==
  /\ IOReady
  /\ wk[r].pc = "upload_out"
  /\ out \in BlobOutcomes
  /\ wk' = [wk EXCEPT ![r] =
              CASE out = "ok" ->
                     [Step(@) EXCEPT !.pc = "insert_media", !.durable = TRUE,
                                     !.key = UniqueKey(generateBatchId(DEFAULT_PERSONA, now))]
                [] out = "fail" -> Throw(Step(@), UploadFailMsg, "blob")
                [] OTHER -> Throw(Step(@), StoreRaiseMsg, "blob")]
  /\ UNCHANGED <<req, resp, hpc, jobs, media, hjob, hshot, lookup, health, now>>

\* ------------------------------------------------- persisting the result

\* The media_generations row the worker inserts; the store gives the id. The
\* unique key is the one computed when the adapter returned, before the
\* insert was issued.
MediaRow(id, w) ==
  [id |-> id, job_id |-> w.jobId, url |-> w.url, durable |-> w.durable,
   model_used |-> w.model,
   unique_key |-> w.key,
   filename |-> Filename(w.key, w.adapter)]

NextMediaId == Cardinality(media) + 1

\* if (mediaError) throw mediaError; else the update of the job to completed
\* is issued.
AfterInsertMedia(w, out, id) ==
  CASE out = "ok" -> [w EXCEPT !.pc = "mark_completed", !.mediaId = id]
    [] out = "raise" -> Throw(w, StoreRaiseMsg, "persist")
    [] OTHER -> Throw(w, StoreErrMsg, "persist")

InsertMediaDone(r, out) ==
  /\ IOReady
  /\ wk[r].pc = "insert_media"
  /\ out \in WriteOutcomes
  /\ media' = IF Applied(out) THEN media \cup {MediaRow(NextMediaId, wk[r])} ELSE media
  /\ wk' = [wk EXCEPT ![r] = AfterInsertMedia(Step(@), out, NextMediaId)]
  /\ UNCHANGED <<req, resp, hpc, jobs, hjob, hshot, lookup, health, now>>

\* The awaited update to completed settles; its result is not inspected; a
\* rejection is caught by the worker's catch block.
MarkCompletedDone(r, out) ==
  /\ IOReady
  /\ wk[r].pc = "mark_completed"
  /\ out \in WriteOutcomes
  /\ jobs' = IF Applied(out)
             THEN UpdateJob(wk[r].jobId,
                            CompletedUpdate(jobs[wk[r].jobId], wk[r].mediaId))
             ELSE jobs
  /\ wk' = [wk EXCEPT ![r] =
              IF out = "raise"
              THEN Throw([Step(@) EXCEPT !.cw = out], StoreRaiseMsg, "store")
              ELSE [Step(@) EXCEPT !.pc = "done", !.cw = out]]
  /\ UNCHANGED <<req, resp, hpc, media, hjob, hshot, lookup, health, now>>

\* The catch block's awaited update to failed settles; its result is not
\* inspected; a rejection leaves the worker's promise rejected, unhandled.
CatchDone(r, out) ==
  /\ IOReady
  /\ wk[r].pc = "catch"
  /\ out \in WriteOutcomes
  /\ jobs' = IF Applied(out)
             THEN UpdateJob(wk[r].jobId, FailedUpdate(jobs[wk[r].jobId], wk[r].err))
             ELSE jobs
  /\ wk' = [wk EXCEPT ![r] =
              [Step(@) EXCEPT !.pc = IF out = "raise" THEN "rejected" ELSE "done",
                              !.fw = out]]
  /\ UNCHANGED <<req, resp, hpc, media, hjob, hshot, lookup, health, now>>

\* ------------------------------------------ GET /api/generate/status/:jobId

\* router.get('/status/:jobId'): the answer is the fixed placeholder; the
\* stored row is recorded beside it as it stands at that moment.
GetStatus(jid) ==
  /\ IOReady
  /\ lookup' = [jobId |-> jid, status |-> "processing", error |-> NoMsg,
                stored |-> jobs[jid].status,
                storedError |-> jobs[jid].error_message, threw |-> FALSE]
  /\ UNCHANGED <<req, resp, hpc, jobs, media, hjob, hshot, wk, health, now>>

\* ------------------------------------------------ GET /api/health/detailed

\* What a connection check's select can answer: a result without error, a
\* result with an error object, or a rejection.
ReadOutcomes == {"ok", "error", "raise"}

\* checks.mediaVault / checks.influencerMgmt: healthy when the select returned
\* no error, error when it returned one or rejected (the catch inside
\* checkSupabaseConnection).
CheckStatus(out) == IF out = "ok" THEN "healthy" ELSE "error"

\* checkSupabaseConnection(): return checks; the object has the two checks as
\* its fields and no status field of its own.
checkSupabaseConnection(mv, im) ==
  [mediaVault |-> [status |-> mv], influencerMgmt |-> [status |-> im]]

\* check.status as JavaScript reads it: undefined when the object has no
\* such field.
StatusField(check) ==
  IF "status" \in DOMAIN check THEN check.status ELSE "undefined"

\* Object.values(health.checks).every(check => check.status === 'healthy')
allHealthy(checks) ==
  \A k \in DOMAIN checks : StatusField(checks[k]) = "healthy"

\* The answer of router.get('/detailed') once checkSupabaseConnection has
\* returned: health.checks.supabase is its result, the overall status comes
\* from allHealthy and the HTTP code from the overall status.
DetailedHealth(mv, im) ==
  LET checks == [supabase |-> checkSupabaseConnection(mv, im)]
      status == IF allHealthy(checks) THEN "healthy" ELSE "degraded"
  IN [pc |-> "idle", mediaVault |-> mv, influencerMgmt |-> im,
      code |-> IF status = "healthy" THEN 200 ELSE 503,
      status |-> status, supabase |-> StatusField(checks.supabase)]

\* GET /api/health/detailed arrives: the route calls checkSupabaseConnection,
\* which issues the select on media_generations.
HealthDetailed ==
  /\ IOReady
  /\ health.pc = "idle"
  /\ health' = [NoHealth EXCEPT !.pc = "mediaVault"]
  /\ UNCHANGED <<req, resp, hpc, jobs, media, hjob, hshot, wk, lookup, now>>

\* The select on media_generations settles; the select on influencer_profiles
\* is issued.
MediaVaultCheckDone(out) ==
  /\ IOReady
  /\ health.pc = "mediaVault"
  /\ out \in ReadOutcomes
  /\ health' = [health EXCEPT !.pc = "influencerMgmt",
                              !.mediaVault = CheckStatus(out)]
  /\ UNCHANGED <<req, resp, hpc, jobs, media, hjob, hshot, wk, lookup, now>>

\* The select on influencer_profiles settles; checkSupabaseConnection returns
\* (it never rejects, so the route's own catch does not run) and the route
\* answers.
InfluencerMgmtCheckDone(out) ==
  /\ IOReady
  /\ health.pc = "influencerMgmt"
  /\ out \in ReadOutcomes
  /\ health' = DetailedHealth(health.mediaVault, CheckStatus(out))
  /\ UNCHANGED <<req, resp, hpc, jobs, media, hjob, hshot, wk, lookup, now>>

\* ---------------------------------------------------------------- clock

\* The clock reaches the next minute.
Tick ==
  /\ now < MaxMinute
  /\ now' = now + 1
  /\ UNCHANGED <<req, resp, hpc, jobs, media, hjob, hshot, wk, lookup, health>>

\* ------------------------------------------------------- specifications

\* One request with every body and every answer of the environment.
NextOne ==
  \/ \E body \in Bodies, jid \in JobIds : PostGenerate(1, body, jid)
  \/ \E out \in WriteOutcomes : HandlerInsertDone(1, out)
  \/ HandlerReturn(1)
  \/ \E out \in WriteOutcomes : MarkProcessingDone(1, out)
  \/ \E found \in BOOLEAN : RefsDone(1, found)
  \/ \E found \in BOOLEAN : ProfileDone(1, found)
  \/ \E out \in BlobOutcomes : DownloadSrcDone(1, out)
  \/ \E out \in BlobOutcomes : UploadSrcDone(1, out)
  \/ \E ans \in SubmitAnswers : SubmitDone(1, ans)
  \/ PollSleepDone(1)
  \/ \E ans \in PollAnswers : PollCheckDone(1, ans)
  \/ \E out \in BlobOutcomes : DownloadOutDone(1, out)
  \/ \E out \in BlobOutcomes : UploadOutDone(1, out)
  \/ \E out \in WriteOutcomes : InsertMediaDone(1, out)
  \/ \E out \in WriteOutcomes : MarkCompletedDone(1, out)
  \/ \E out \in WriteOutcomes : CatchDone(1, out)

SpecOne == Init /\ [][NextOne]_vars

\* One request together with the clients' status lookups.
NextLookup == NextOne \/ \E jid \in JobIds : GetStatus(jid)

SpecLookup == Init /\ [][NextLookup]_vars

\* The bodies and answers of the concurrent runs: an image request, a video
\* request, a rejected request and a request the store refuses; of each
\* external call one answer per way the code reacts to it.
BodiesFew ==
  { Body("image", "pinterest", SrcUrl, Null, FALSE, ""),
    Body("video", "pinterest", SrcUrl, Null, FALSE, "kling-25"),
    Body("audio", "pinterest", SrcUrl, Null, FALSE, ""),
    Body("image", "pinterest", SrcUrl, "wide", FALSE, "") }
SubmitAnswersFew ==
  {a \in SubmitAnswers :
     \/ a.kind = "http" /\ a.status = "503"
     \/ a.kind = "body" /\ a.task /\ a.outputs = <<>>
     \/ a.kind = "body" /\ ~a.task /\ a.outputs = <<"x1">>}
PollAnswersFew ==
  {a \in PollAnswers :
     /\ a.kind = "body" /\ a.data /\ a.error = ""
     /\ \/ a.status = "processing" /\ a.outputs = <<>>
        \/ a.status = "completed" /\ a.outputs = <<"x1">>
        \/ a.status = "failed" /\ a.outputs = <<>>}
BlobOutcomesFew == {"ok", "fail"}

\* Concurrent requests.
Next ==
  \/ \E r \in Reqs, body \in BodiesFew, jid \in JobIds : PostGenerate(r, body, jid)
  \/ \E r \in Reqs, out \in WriteOutcomes : HandlerInsertDone(r, out)
  \/ \E r \in Reqs : HandlerReturn(r)
  \/ \E r \in Reqs, out \in WriteOutcomes : MarkProcessingDone(r, out)
  \/ \E r \in Reqs, found \in BOOLEAN : RefsDone(r, found)
  \/ \E r \in Reqs : ProfileDone(r, TRUE)
  \/ \E r \in Reqs : DownloadSrcDone(r, "ok")
  \/ \E r \in Reqs : UploadSrcDone(r, "ok")
  \/ \E r \in Reqs, ans \in SubmitAnswersFew : SubmitDone(r, ans)
  \/ \E r \in Reqs : PollSleepDone(r)
  \/ \E r \in Reqs, ans \in PollAnswersFew : PollCheckDone(r, ans)
  \/ \E r \in Reqs : DownloadOutDone(r, "ok")
  \/ \E r \in Reqs, out \in BlobOutcomesFew : UploadOutDone(r, out)
  \/ \E r \in Reqs, out \in WriteOutcomes : InsertMediaDone(r, out)
  \/ \E r \in Reqs, out \in WriteOutcomes : MarkCompletedDone(r, out)
  \/ \E r \in Reqs, out \in WriteOutcomes : CatchDone(r, out)

Spec == Init /\ [][Next]_vars

\* One poll loop with the budget the code gives it (60 or 30 attempts): the
\* worker stands where a submission answered with a task handle has left it,
\* the handler has returned, and the row is processing (or still pending,
\* when the update to processing was not applied).
BodiesPoll ==
  { Body("image", "pinterest", SrcUrl, Null, FALSE, ""),
    Body("image", "pinterest", SrcUrl, Null, TRUE, ""),
    Body("video", "pinterest", SrcUrl, Null, FALSE, "") }

InitPoll ==
  \E body \in BodiesPoll, st \in {"pending", "processing"} :
    LET jid == <<"job", 1>>
        w == LaunchWorker(jid, body)
    IN /\ req = [r \in Reqs |-> IF r = 1 THEN body ELSE NoBody]
       /\ resp = [r \in Reqs |-> IF r = 1 THEN HandlerResult(jid) ELSE NoResp]
       /\ hpc = [r \in Reqs |-> IF r = 1 THEN "done" ELSE "idle"]
       /\ jobs = [j \in JobIds |->
                    IF j = jid
                    THEN JobRow(body.mode, normalizeShotType(body.shotType), st)
                    ELSE NoRow]
       /\ media = {}
       /\ hjob = [r \in Reqs |-> IF r = 1 THEN jid ELSE NoId]
       /\ hshot = [r \in Reqs |-> IF r = 1 THEN normalizeShotType(body.shotType) ELSE Null]
       /\ wk = [r \in Reqs |->
                  IF r = 1
                  THEN [w EXCEPT !.pc = "poll_sleep", !.face = TRUE, !.profile = TRUE,
                                 !.maxAttempts = DefaultMaxAttempts(w.adapter),
                                 !.submits = 1, !.calls = 6]
                  ELSE NoWorker]
       /\ lookup = NoLookup
       /\ health = NoHealth
       /\ now = 0

NextPoll ==
  \/ PollSleepDone(1)
  \/ \E ans \in PollAnswersFew : PollCheckDone(1, ans)
  \/ \E out \in WriteOutcomes : CatchDone(1, out)

SpecPoll == InitPoll /\ [][NextPoll]_vars

\* One poll loop of the earlier wavespeed service (WAN Animate or Seedream),
\* up to the download of what it returned: the status answers carry their
\* fields at the top level; downloadFile(undefined) rejects.
PollAnswersV1 ==
  {a \in PollAnswers :
     /\ a.kind = "body" /\ ~a.data /\ a.error = ""
     /\ a.status \in {"processing", "completed", "failed"}
     /\ a.outputs \in {<<>>, <<"x1">>}}

InitPollV1 == InitPoll /\ wk[1].adapter \in {"wan", "seedream"}

NextPollV1 ==
  \/ PollSleepDone(1)
  \/ \E ans \in PollAnswersV1 : PollCheckDoneV1(1, ans)
  \/ \E out \in BlobOutcomes : DownloadResultDoneV1(1, out)
  \/ \E out \in WriteOutcomes : CatchDone(1, out)

SpecPollV1 == InitPollV1 /\ [][NextPollV1]_vars

\* Concurrent image and video requests of the default persona whose external
\* calls succeed (the submission answers with the result at once), while the
\* clock runs; the two inserts can be refused.
BodiesClock ==
  { Body("image", "pinterest", SrcUrl, Null, FALSE, ""),
    Body("video", "pinterest", SrcUrl, Null, FALSE, "") }

SubmitAnswersDirect == {a \in SubmitAnswersFew : ~a.task}

NextClock ==
  \/ Tick
  \/ \E r \in Reqs, body \in BodiesClock, jid \in JobIds : PostGenerate(r, body, jid)
  \/ \E r \in Reqs, out \in {"ok", "error"} : HandlerInsertDone(r, out)
  \/ \E r \in Reqs : HandlerReturn(r)
  \/ \E r \in Reqs : MarkProcessingDone(r, "ok")
  \/ \E r \in Reqs : RefsDone(r, TRUE)
  \/ \E r \in Reqs : ProfileDone(r, TRUE)
  \/ \E r \in Reqs : DownloadSrcDone(r, "ok")
  \/ \E r \in Reqs : UploadSrcDone(r, "ok")
  \/ \E r \in Reqs, ans \in SubmitAnswersDirect : SubmitDone(r, ans)
  \/ \E r \in Reqs : DownloadOutDone(r, "ok")
  \/ \E r \in Reqs : UploadOutDone(r, "ok")
  \/ \E r \in Reqs, out \in {"ok", "error"} : InsertMediaDone(r, out)
  \/ \E r \in Reqs : MarkCompletedDone(r, "ok")
  \/ \E r \in Reqs : CatchDone(r, "ok")

SpecClock == Init /\ [][NextClock]_vars

\* An external call of the one request settles: every step but the arrival
\* of the request.
SettleOne ==
  \/ \E out \in WriteOutcomes : HandlerInsertDone(1, out)
  \/ HandlerReturn(1)
  \/ \E out \in WriteOutcomes : MarkProcessingDone(1, out)
  \/ \E found \in BOOLEAN : RefsDone(1, found)
  \/ \E found \in BOOLEAN : ProfileDone(1, found)
  \/ \E out \in BlobOutcomes : DownloadSrcDone(1, out)
  \/ \E out \in BlobOutcomes : UploadSrcDone(1, out)
  \/ \E ans \in SubmitAnswers : SubmitDone(1, ans)
  \/ PollSleepDone(1)
  \/ \E ans \in PollAnswers : PollCheckDone(1, ans)
  \/ \E out \in BlobOutcomes : DownloadOutDone(1, out)
  \/ \E out \in BlobOutcomes : UploadOutDone(1, out)
  \/ \E out \in WriteOutcomes : InsertMediaDone(1, out)
  \/ \E out \in WriteOutcomes : MarkCompletedDone(1, out)
  \/ \E out \in WriteOutcomes : CatchDone(1, out)

\* One request, with every external call returning or raising in the end:
\* the call that is outstanding settles, and the event loop then runs the
\* code that awaited it.
SpecLive == Init /\ [][NextOne]_vars /\ WF_vars(SettleOne)

\* The health route beside the generate route: health checks while requests
\* are validated, inserted and answered.
NextHealth ==
  \/ HealthDetailed
  \/ \E out \in ReadOutcomes : MediaVaultCheckDone(out)
  \/ \E out \in ReadOutcomes : InfluencerMgmtCheckDone(out)
  \/ \E r \in Reqs, body \in BodiesFew, jid \in JobIds : PostGenerate(r, body, jid)
  \/ \E r \in Reqs, out \in WriteOutcomes : HandlerInsertDone(r, out)
  \/ \E r \in Reqs : HandlerReturn(r)

SpecHealth == Init /\ [][NextHealth]_vars

\* ------------------------------------------------------------- properties

Artifacts(j) == {m \in media : m.job_id = j}
Finished(w) == w.pc \in {"done", "rejected"}

LegalMoves ==
  {<<"absent", "pending">>, <<"pending", "processing">>,
   <<"processing", "completed">>, <<"processing", "failed">>}

\* C1: every change of a job's stored status is pending -> processing,
\* processing -> completed or processing -> failed (after the row's creation
\* as pending), whatever the store writes answer.
C1_StatusMovesLegal ==
  [][\A j \in JobIds :
       jobs[j].status # jobs'[j].status
         => <<jobs[j].status, jobs'[j].status>> \in LegalMoves]_vars

\* C2: in every reachable state a job has an Artifact exactly when its stored
\* status is completed.
C2_ArtifactIffCompleted ==
  \A j \in JobIds : (Artifacts(j) # {}) <=> (jobs[j].status = "completed")

\* The law of C2 read only where the worker has ended, so that the moment
\* between the Artifact insert and the Job update does not count: a job whose
\* worker has ended has an Artifact exactly when its status is completed.
ArtifactIffCompletedAtRest ==
  \A r \in Reqs :
    Finished(wk[r])
      => ((Artifacts(wk[r].jobId) # {})
            <=> (jobs[wk[r].jobId].status = "completed"))

\* C3: no job ever has more than one Artifact (rows are never deleted, so the
\* rows present are the rows ever created).
C3_AtMostOneArtifact == \A j \in JobIds : Cardinality(Artifacts(j)) <= 1

C3_Witness ==
  /\ \A r \in Reqs : Finished(wk[r])
  /\ \A j \in JobIds : Cardinality(Artifacts(j)) = 1

FailureCauses == {"submit", "poll_failed", "poll_timeout", "persist"}

\* C4: a worker that ended after an adapter submission error, a poller
\* Failed, a poller TimedOut or an exception while persisting the Artifact
\* leaves the job failed with the triggering error's message.
C4_FailureRecorded ==
  \A r \in Reqs :
    (Finished(wk[r]) /\ wk[r].cause \in FailureCauses)
      => /\ jobs[wk[r].jobId].status = "failed"
         /\ jobs[wk[r].jobId].error_message = wk[r].err

\* C5: no failure escapes the worker, and a worker that ended after a failure
\* has left the job failed.
C5_FailuresContained ==
  \A r \in Reqs :
    /\ wk[r].pc # "rejected"
    /\ (Finished(wk[r]) /\ wk[r].cause # "none")
         => jobs[wk[r].jobId].status = "failed"

\* C6: the handler's answer is a job id with the status pending, and it is
\* given when the insert of the row has succeeded and before any external
\* call of the worker has settled: the row is still pending and the worker
\* stands at its first await.
C6_ReturnsBeforeWorker ==
  [][\A r \in Reqs :
       (resp[r].code = 0 /\ resp'[r].code = 200)
         => /\ resp'[r].jobId \in JobIds
            /\ resp'[r].jobId = wk'[r].jobId
            /\ resp'[r].status = "pending"
            /\ jobs'[resp'[r].jobId].status = "pending"
            /\ wk'[r].pc = "mark_processing"
            /\ wk'[r].calls = 0]_vars

C6_Witness ==
  \E r \in Reqs :
    /\ resp[r].code = 200
    /\ resp[r].status = "pending"
    /\ wk[r].pc = "mark_processing"

\* What C7 calls a request that fails validation.
InvalidBody(b) ==
  \/ b.mode = "" \/ b.platform = "" \/ b.sourceUrl = ""
  \/ b.mode \notin {"image", "video"}
  \/ b.platform \notin {"pinterest", "tiktok", "instagram", "generic"}

\* C7: a request that fails validation is answered 400 at once; its handler
\* never runs, so it inserts no row and starts no worker.
C7_InvalidRejected ==
  \A r \in Reqs :
    (req[r] # NoBody /\ InvalidBody(req[r]))
      => /\ resp[r].code = 400
         /\ hpc[r] = "done"
         /\ hjob[r] = NoId
         /\ wk[r].pc = "none"
         /\ \A j \in JobIds :
              jobs[j].status # "absent" => \E q \in Reqs \ {r} : hjob[q] = j

C7_Witness ==
  \E r \in Reqs : req[r].mode = "audio" /\ resp[r].code = 400

\* C8: the status lookup never throws and answers the stored status and
\* error message of an existing job.
C8_LookupAnswersStored ==
  lookup.jobId # NoId
    => /\ ~lookup.threw
       /\ lookup.stored # "absent"
            => /\ lookup.status = lookup.stored
               /\ lookup.error = lookup.storedError

\* C9: a poll loop ends with 'Task timed out' exactly when every one of its
\* maxAttempts status checks reported still-pending.
C9_TimedOutIffAllPending ==
  \A r \in Reqs :
    wk[r].maxAttempts > 0
      => ((wk[r].err = TimedOutMsg)
            <=> (wk[r].checks = wk[r].maxAttempts
                 /\ wk[r].pendings = wk[r].checks))

C9_Witness ==
  \E r \in Reqs :
    /\ wk[r].err = TimedOutMsg
    /\ wk[r].maxAttempts >= 2
    /\ wk[r].pendings = wk[r].maxAttempts

\* C10: when attempt k is the first to report success, with URL X, after k-1
\* still-pending reports, the loop returns at attempt k with exactly X.
C10_CompletedAtFirstSuccess ==
  \A r \in Reqs :
    (wk[r].okAt # 0 /\ wk[r].pendings = wk[r].okAt - 1)
      => /\ wk[r].okAt <= wk[r].maxAttempts
         /\ wk[r].checks = wk[r].okAt
         /\ wk[r].sleeps = wk[r].okAt
         /\ wk[r].poll = "completed"
         /\ wk[r].url = wk[r].okUrl
         /\ wk[r].cause \notin {"poll_failed", "poll_timeout", "poll_error"}

C10_Witness ==
  \E r \in Reqs :
    /\ wk[r].okAt = 2
    /\ wk[r].okUrl = "x2"
    /\ wk[r].url = "x2"
    /\ wk[r].poll = "completed"

\* C11: when attempt k is the first to report failure, the loop ends at
\* attempt k with Failed carrying the provider's reason (the adapter's default
\* text when the provider gives none); and after a terminal report, success
\* or failure, no further sleep or status check is issued.
C11_FailedAtFirstFailure ==
  \A r \in Reqs :
    /\ wk[r].failAt # 0
         => /\ wk[r].checks = wk[r].failAt
            /\ wk[r].sleeps = wk[r].failAt
            /\ wk[r].poll = "failed"
            /\ wk[r].pc \in {"catch", "done", "rejected"}
            /\ wk[r].err = IF wk[r].failReason # ""
                           THEN <<wk[r].failReason>>
                           ELSE <<DefaultFailMsg(wk[r].adapter)>>
    /\ wk[r].okAt # 0
         => /\ wk[r].checks = wk[r].okAt
            /\ wk[r].sleeps = wk[r].okAt
            /\ wk[r].pc \notin {"poll_sleep", "poll_check"}

C11_Witness ==
  \E r \in Reqs :
    /\ wk[r].failAt = 2
    /\ wk[r].failReason = "content rejected"
    /\ wk[r].err = <<"content rejected">>
    /\ Finished(wk[r])

\* What bounds one poll loop: it never issues more sleeps or status checks
\* than its adapter's maxAttempts (60 for WAN, 30 for Seedream and Gemini).
PollLoopBounded ==
  \A r \in Reqs :
    wk[r].maxAttempts > 0
      => /\ wk[r].maxAttempts = DefaultMaxAttempts(wk[r].adapter)
         /\ wk[r].sleeps <= wk[r].maxAttempts
         /\ wk[r].checks <= wk[r].maxAttempts
         /\ wk[r].checks <= wk[r].sleeps

\* C12: a poll loop issues at most maxAttempts sleeps and status checks (60
\* for WAN, 30 for Seedream and Gemini), and a worker whose loop exhausted its
\* attempts ends with the job failed and the timeout message.
C12_BoundedAndReported ==
  /\ PollLoopBounded
  /\ \A r \in Reqs :
       (Finished(wk[r]) /\ wk[r].poll = "timedout")
         => /\ jobs[wk[r].jobId].status = "failed"
            /\ jobs[wk[r].jobId].error_message = TimedOutMsg

\* The external operations of a worker that are outstanding: the one its
\* awaiting position names, none before it starts and after it has ended.
Outstanding(w) == IF w.pc \in {"none", "done", "rejected"} THEN {} ELSE {w.pc}

\* The status checks a worker has issued: the settled ones and the one
\* outstanding.
ChecksIssued(w) == w.checks + (IF w.pc = "poll_check" THEN 1 ELSE 0)

\* C13: a worker has at most one external operation outstanding; every status
\* check it issues follows a sleep that has completed, one sleep per check,
\* so that no status check is issued while another is outstanding.
C13_Sequential ==
  \A r \in Reqs :
    /\ Cardinality(Outstanding(wk[r])) <= 1
    /\ ChecksIssued(wk[r]) <= wk[r].sleeps
    /\ wk[r].pc = "poll_check" => wk[r].sleeps = wk[r].checks + 1
    /\ wk[r].pc = "poll_sleep" => wk[r].sleeps = wk[r].checks

C13_Witness ==
  \E r \in Reqs :
    /\ wk[r].pc = "poll_check"
    /\ wk[r].checks = 1
    /\ wk[r].sleeps = 2

\* What the poll loop did with the last status answer.
Verdict(w) ==
  CASE w.poll = "completed" -> "done"
    [] w.poll = "failed" -> "failed"
    [] w.poll = "error" -> "error"
    [] OTHER -> "still-pending"

SubmissionFailed(a) ==
  \/ a.kind \in {"network", "http"}
  \/ a.kind = "body" /\ ~a.task /\ Len(a.outputs) = 0

\* C15: after a failed submission the adapter has raised an error (with the
\* upstream status and body text for a non-2xx response) and returned no
\* result: no URL, no status check, no Artifact; and the raise itself wrote
\* nothing to the Job: until the worker's own catch block has written, the
\* row carries no failure.
C15_SubmissionFailureRaises ==
  \A r \in Reqs :
    SubmissionFailed(wk[r].sub)
      => /\ wk[r].cause = "submit"
         /\ wk[r].pc \in {"catch", "done", "rejected"}
         /\ wk[r].err # NoMsg
         /\ wk[r].sub.kind = "http"
              => /\ Len(wk[r].err) = 4
                 /\ wk[r].err[2] = wk[r].sub.status
                 /\ wk[r].err[4] = wk[r].sub.text
         /\ wk[r].url = "" /\ wk[r].mediaId = 0 /\ wk[r].checks = 0
         /\ Artifacts(wk[r].jobId) = {}
         /\ wk[r].pc = "catch"
              => /\ jobs[wk[r].jobId].status \in {"pending", "processing"}
                 /\ jobs[wk[r].jobId].error_message = NoMsg

C15_Witness ==
  \E r \in Reqs :
    /\ wk[r].sub.kind = "http" /\ wk[r].sub.status = "503"
    /\ wk[r].pc = "catch"
    /\ wk[r].err = <<"Seedream API error ", "503", ": ", "upstream down">>

\* The workers that run for a job.
WorkersOf(j) == {r \in Reqs : wk[r].jobId = j}

\* C16: a job has at most one worker and that worker submits to the provider
\* at most once, whatever the submission answers; a job whose status is
\* failed has no worker that is still running, so it is never run again.
C16_AtMostOneSubmission ==
  \A j \in JobIds :
    /\ Cardinality(WorkersOf(j)) <= 1
    /\ \A r \in WorkersOf(j) :
         /\ wk[r].submits <= 1
         /\ jobs[j].status = "failed" => Finished(wk[r])

C16_Witness ==
  \E r \in Reqs :
    /\ wk[r].cause = "submit"
    /\ wk[r].submits = 1
    /\ Finished(wk[r])
    /\ jobs[wk[r].jobId].status = "failed"

VideoAdapterFor(model) ==
  CASE model = "WAN 2.2 Animate" -> "wan"
    [] model = "Kling 2.5" -> "kling"
    [] model = "Veo 3.1" -> "veo"
    [] OTHER -> "none"

\* C18: for a video job the adapter its worker invokes is the adapter of the
\* video model that settings.videoModel selected.
C18_InvokedIsSelected ==
  \A r \in Reqs :
    (req[r].mode = "video" /\ wk[r].pc \notin {"none", "mark_processing"})
      => wk[r].adapter = VideoAdapterFor(selectVideoModel(req[r].videoModel))

Unrecognized(shotType) ==
  shotType \notin {"close-up", "half-body", "full-body", "close", "half", "full"}

\* C20: the row inserted for a request with an unrecognized or absent shot
\* type carries the shot type null, and the store does not refuse it: with a
\* fresh job id the insert can be applied and the row becomes pending.
C20_UnrecognizedShotAccepted ==
  \A r \in Reqs :
    (hpc[r] = "insert" /\ Unrecognized(req[r].shotType)
       /\ jobs[hjob[r]].status = "absent")
      => /\ OrNull(hshot[r]) = Null
         /\ "ok" \in InsertJobOutcomes(hjob[r], OrNull(hshot[r]))

\* C21: whenever a worker's provider submission call is issued or in flight,
\* the stored status of its job is processing, whichever adapter was selected.
C21_ProcessingWhileSubmitting ==
  \A r \in Reqs :
    wk[r].pc = "submit" => jobs[wk[r].jobId].status = "processing"

\* The run C22 speaks of: the submission answered with a task handle, the
\* status checks reported still-pending k times and then success.
PendingThenSuccess(w) ==
  /\ w.sub.kind = "body" /\ w.sub.task
  /\ w.okAt # 0
  /\ w.pendings = w.okAt - 1
  /\ w.okAt - 1 < w.maxAttempts

\* C22: a worker whose submission returned a task handle and whose status
\* checks reported still-pending k times (k < maxAttempts) and then success
\* with URL X ends with the job completed, with one Artifact whose URL is the
\* durable-store copy of the content at X, and with the job's
\* media_generation_id set to that Artifact's id.
C22_PendingThenSuccessCompletes ==
  \A r \in Reqs :
    (Finished(wk[r]) /\ PendingThenSuccess(wk[r]))
      => /\ jobs[wk[r].jobId].status = "completed"
         /\ \E m \in media :
              /\ Artifacts(wk[r].jobId) = {m}
              /\ m.url = wk[r].okUrl
              /\ m.durable
              /\ jobs[wk[r].jobId].media_generation_id = m.id

\* The law of C22 read only for the runs in which the result at X was copied
\* to the durable store and the Artifact insert answered with the new row:
\* what is left to the worker is the update of the job.
CompletesOncePersisted ==
  \A r \in Reqs :
    (Finished(wk[r]) /\ PendingThenSuccess(wk[r]) /\ wk[r].mediaId # 0)
      => /\ jobs[wk[r].jobId].status = "completed"
         /\ jobs[wk[r].jobId].media_generation_id = wk[r].mediaId

\* A step of the worker of request r: one of its external calls settles.
WorkerStep(r) == wk[r].pc # "none" /\ wk'[r] # wk[r]

\* C23: a step of the worker of job j changes no Job row but the row j, under
\* any interleaving of the workers: the status, the error message and the
\* artifact backlink of every other row stay as they are.
C23_WorkerWritesOwnRow ==
  [][\A r \in Reqs :
       WorkerStep(r)
         => \A j \in JobIds \ {wk[r].jobId} : jobs'[j] = jobs[j]]_vars

C23_Witness ==
  \E r \in Reqs, q \in Reqs :
    /\ wk[r].jobId # NoId /\ wk[q].jobId # NoId
    /\ wk[r].jobId # wk[q].jobId
    /\ jobs[wk[r].jobId].status = "completed"
    /\ wk[q].pc = "poll_check"
    /\ jobs[wk[q].jobId].status = "processing"

\* The worker stands inside an adapter: between the adapter's call and its
\* return or throw, the poll loop included.
InAdapter(w) ==
  w.pc \in {"refs", "profile", "download_src", "upload_src", "submit",
            "poll_sleep", "poll_check", "download_out", "upload_out"}

\* The worker stands at one of the orchestrator's own store writes to the
\* job: the update to processing, to completed or to failed.
AtJobWrite(w) == w.pc \in {"mark_processing", "mark_completed", "catch"}

\* C24: a step taken inside an adapter submission or a poll loop leaves every
\* Job row unchanged; a Job row changes only in a step of the orchestrator:
\* the handler's insert or one of the worker's own three updates.
C24_AdaptersNeverWriteJob ==
  [][/\ \A r \in Reqs :
          (InAdapter(wk[r]) /\ wk'[r] # wk[r]) => jobs' = jobs
     /\ jobs' # jobs
          => \E r \in Reqs :
               \/ hpc[r] = "insert" /\ hpc'[r] # "insert"
               \/ AtJobWrite(wk[r]) /\ wk'[r] # wk[r]]_vars

C24_Witness ==
  \E r \in Reqs :
    /\ wk[r].pc = "catch"
    /\ wk[r].poll = "failed"
    /\ wk[r].checks = 2
    /\ jobs[wk[r].jobId].status = "processing"
    /\ jobs[wk[r].jobId].error_message = NoMsg

\* The adapters of the model.
Adapters == {"gemini", "seedream", "wan"}

\* Every error message a failed submission can leave in a worker of the
\* adapter: those of a rejected fetch, of a non-2xx response and of a 2xx
\* body with neither task handle nor outputs.
SubmissionErrorMsgs(adapter) ==
  {AfterSubmit([NoWorker EXCEPT !.adapter = adapter], a).err :
     a \in {b \in SubmitAnswers : SubmissionFailed(b)}}

\* C25: of the jobs recorded as failed, one failed by poll timeout carries the
\* timeout message, and that message is none of the messages a submission
\* error records, for any adapter; one failed by a submission error carries a
\* message (of its own adapter's submission errors) that is not the timeout
\* message.
C25_TimeoutDistinguishable ==
  \A r \in Reqs :
    (wk[r].pc # "none" /\ jobs[wk[r].jobId].status = "failed")
      => /\ wk[r].cause = "poll_timeout"
              => /\ jobs[wk[r].jobId].error_message = TimedOutMsg
                 /\ \A a \in Adapters :
                      jobs[wk[r].jobId].error_message \notin SubmissionErrorMsgs(a)
         /\ wk[r].cause = "submit"
              => /\ jobs[wk[r].jobId].error_message # TimedOutMsg
                 /\ jobs[wk[r].jobId].error_message
                      \in SubmissionErrorMsgs(wk[r].adapter)

C25_Witness ==
  \E r \in Reqs :
    /\ Finished(wk[r])
    /\ wk[r].cause = "poll_timeout"
    /\ wk[r].adapter = "wan"
    /\ jobs[wk[r].jobId].status = "failed"
    /\ jobs[wk[r].jobId].error_message = <<"Task timed out">>

\* C26: the detailed health check answers healthy with HTTP 200 exactly when
\* the Media Vault check and the Influencer Management check are both
\* healthy, and degraded with HTTP 503 otherwise.
C26_HealthyIffAllHealthy ==
  health.code # 0
    => IF health.mediaVault = "healthy" /\ health.influencerMgmt = "healthy"
       THEN health.status = "healthy" /\ health.code = 200
       ELSE health.status = "degraded" /\ health.code = 503

\* What the route does answer: degraded with HTTP 503, whatever the two
\* checks found.
HealthAlwaysDegraded ==
  health.code # 0 => health.status = "degraded" /\ health.code = 503

\* The first half of C27: a job whose stored status is completed has an
\* Artifact of its own worker, and its media_generation_id is that
\* Artifact's id.
CompletedHasArtifact ==
  \A j \in JobIds :
    jobs[j].status = "completed"
      => \E m \in Artifacts(j) : jobs[j].media_generation_id = m.id

\* C27: in every reachable state (each one is where a crash would stop the
\* worker, and the store writes may fail at any point) a completed job has an
\* Artifact created by its worker and points to it; and where the worker
\* stands between the Artifact insert and the Job update, the job is
\* processing.
C27_ArtifactBeforeCompleted ==
  /\ CompletedHasArtifact
  /\ \A r \in Reqs :
       wk[r].pc = "mark_completed" => jobs[wk[r].jobId].status = "processing"

\* The step launches the worker of request r.
Launches(r) == wk[r].pc = "none" /\ wk'[r].pc # "none"

\* C28: a job id has at most one worker, ever: a worker is launched only by
\* the handler call whose insert created the Job row, in the step in which
\* that insert is answered, for the id of that row; no other worker has that
\* id; and a worker once launched keeps its id and is never launched again.
C28_OneWorkerPerJob ==
  [][/\ \A j \in JobIds : Cardinality({q \in Reqs : wk'[q].jobId = j}) <= 1
     /\ \A r \in Reqs :
          /\ Launches(r)
               => /\ hpc[r] = "insert"
                  /\ wk'[r].jobId = hjob[r]
                  /\ jobs[hjob[r]].status = "absent"
                  /\ jobs'[hjob[r]].status = "pending"
          /\ wk[r].pc # "none"
               => /\ wk'[r].pc # "none"
                  /\ wk'[r].jobId = wk[r].jobId]_vars

C28_Witness ==
  \E r \in Reqs, q \in Reqs :
    /\ r # q
    /\ hjob[r] = hjob[q] /\ hjob[r] # NoId
    /\ resp[r].code = 200 /\ resp[q].code = 500
    /\ WorkersOf(hjob[r]) = {r}
    /\ Finished(wk[r])

\* The poll loop of the worker has been invoked: the worker stands in it or
\* has slept in it.
PollInvoked(w) == w.pc \in {"poll_sleep", "poll_check"} \/ w.sleeps > 0

\* C29: the poll loop is invoked exactly when the submission response carries
\* a task handle. A response with a result URL and no task handle leads to no
\* sleep and no status check, and its first output is the result; a response
\* with both a task handle and a result URL is polled, and the result is the
\* one the poll loop returns, not the immediate one.
C29_PolledIffTaskHandle ==
  \A r \in Reqs :
    /\ PollInvoked(wk[r]) <=> (wk[r].sub.kind = "body" /\ wk[r].sub.task)
    /\ (wk[r].sub.kind = "body" /\ ~wk[r].sub.task)
         => /\ wk[r].sleeps = 0 /\ wk[r].checks = 0
            /\ Len(wk[r].sub.outputs) > 0 => wk[r].url = wk[r].sub.outputs[1]
    /\ (wk[r].sub.kind = "body" /\ wk[r].sub.task)
         => /\ wk[r].maxAttempts = PollBudget(wk[r].adapter)
            /\ wk[r].url # "" => (wk[r].okAt # 0 /\ wk[r].url = wk[r].okUrl)

C29_Witness ==
  \E r \in Reqs :
    /\ wk[r].sub.kind = "body" /\ wk[r].sub.task
    /\ wk[r].sub.outputs = <<"x1">>
    /\ wk[r].checks = 1
    /\ wk[r].url = "x2"
    /\ wk[r].pc = "download_out"

\* What the fairness of SpecLive does give: a worker that was launched ends.
WorkerTerminates ==
  \A r \in Reqs : [](wk[r].pc # "none" => <>[]Finished(wk[r]))

\* C30: when every external call returns or raises in the end, every job
\* whose row was created reaches the status completed or failed and keeps
\* that status for ever.
C30_EveryJobSettles ==
  \A j \in JobIds :
    [](jobs[j].status # "absent"
         => (<>[](jobs[j].status = "completed") \/ <>[](jobs[j].status = "failed")))

\* C31: when the insert of the Job row fails (an error answer, a rejection,
\* or an id that an existing row already has), the handler raises to the
\* route, which answers 500; no worker is started for the request, then or
\* later, so no provider call is made; and every Job row that existed is left
\* as it was.
C31_InsertFailureRaises ==
  [][\A r \in Reqs :
       /\ (hpc[r] = "insert" /\ hpc'[r] # "insert"
             /\ jobs[hjob[r]].status # "absent")
            => resp'[r].code = 500
       /\ (hpc[r] = "insert" /\ resp'[r].code = 500)
            => /\ resp'[r].error # NoMsg
               /\ hpc'[r] = "done"
               /\ wk' = wk
               /\ \A j \in JobIds : jobs[j].status # "absent" => jobs'[j] = jobs[j]
       /\ resp[r].code = 500
            => /\ wk'[r] = NoWorker
               /\ resp'[r] = resp[r]]_vars

C31_Witness ==
  \E r \in Reqs, q \in Reqs :
    /\ r # q
    /\ hjob[q] = hjob[r] /\ hjob[q] # NoId
    /\ resp[q].code = 500
    /\ resp[q].error = FailedToCreateJob(StoreErrMsg)
    /\ wk[q] = NoWorker
    /\ wk[r].pc = "submit"
    /\ jobs[hjob[r]].status = "processing"

\* The adapter a producing-model identifier names.
AdapterNamedBy(model) ==
  CASE model = "Gemini 3 Pro Image" -> "gemini"
    [] model = "Seedream 4.5 Edit" -> "seedream"
    [] model = "WAN 2.2 Animate" -> "wan"
    [] model = "Kling 2.5" -> "kling"
    [] model = "Veo 3.1" -> "veo"
    [] OTHER -> "none"

\* C32: the model_used stored on the Artifact of a completed job names the
\* adapter that the job's worker invoked to generate it.
C32_ModelUsedIsInvoked ==
  \A r \in Reqs :
    (wk[r].pc # "none" /\ jobs[wk[r].jobId].status = "completed")
      => \A m \in Artifacts(wk[r].jobId) :
           AdapterNamedBy(m.model_used) = wk[r].adapter

\* The same law for the image jobs alone.
ImageModelUsedIsInvoked ==
  \A r \in Reqs :
    (wk[r].pc # "none" /\ req[r].mode = "image"
       /\ jobs[wk[r].jobId].status = "completed")
      => \A m \in Artifacts(wk[r].jobId) :
           AdapterNamedBy(m.model_used) = wk[r].adapter

\* The loop's half of C33: after a status check answered with a non-2xx
\* response the loop has thrown 'Failed to check task status' at that attempt;
\* the answer was not counted as a still-pending round, and no further sleep
\* or status check was issued.
NonOkEndsLoop ==
  \A r \in Reqs :
    wk[r].last.kind = "http"
      => /\ wk[r].poll = "error"
         /\ wk[r].cause = "poll_error"
         /\ wk[r].err = StatusCheckFailMsg(wk[r].last.text)
         /\ wk[r].pc \in {"catch", "done", "rejected"}
         /\ wk[r].i = wk[r].checks - 1
         /\ wk[r].pendings = wk[r].checks - 1
         /\ wk[r].sleeps = wk[r].checks
         /\ wk[r].url = ""

\* C33: a status check answered with a non-2xx response ends the poll loop at
\* that attempt with an error, is not counted as still-pending, and is
\* followed by no further status check; and the worker ends with the job
\* failed.
C33_NonOkStatusCheckFails ==
  /\ NonOkEndsLoop
  /\ \A r \in Reqs :
       (Finished(wk[r]) /\ wk[r].last.kind = "http")
         => jobs[wk[r].jobId].status = "failed"

\* C34: a poll loop that has returned Completed has returned a non-empty
\* artifact URL with it; a status report that says completed and carries no
\* output URL does not make the loop return.
C34_CompletedHasUrl ==
  \A r \in Reqs :
    /\ wk[r].poll = "completed" => wk[r].url # ""
    /\ (wk[r].last.kind = "body" /\ wk[r].last.status = "completed"
          /\ Len(wk[r].last.outputs) = 0)
         => wk[r].poll # "completed"

\* The Reference Resolver has yielded no face reference to the worker's
\* adapter, and the adapter has gone past its test of them.
NoFaceResolved(w) ==
  /\ ~w.face
  /\ w.pc \notin {"none", "mark_processing", "refs", "profile"}
  /\ w.cause # "store"

\* The adapter's half of C35: without a face reference the adapter has thrown
\* its 'No face reference images found' error before any submission call, and
\* there is no Artifact.
NoFaceRaisesBeforeSubmit ==
  \A r \in Reqs :
    NoFaceResolved(wk[r])
      => /\ wk[r].cause = "refs"
         /\ wk[r].err = NoFaceMsg(wk[r].adapter)
         /\ wk[r].pc \in {"catch", "done", "rejected"}
         /\ wk[r].submits = 0 /\ wk[r].sub = NoSubmit /\ wk[r].checks = 0
         /\ Artifacts(wk[r].jobId) = {}

\* C35: when the Reference Resolver yields no face reference (none active for
\* the persona, or a shot framing outside close, half, full), the adapter
\* raises before any provider submission call, and the worker ends with the
\* job failed and no Artifact.
C35_NoFaceReferenceFails ==
  /\ NoFaceRaisesBeforeSubmit
  /\ \A r \in Reqs :
       (Finished(wk[r]) /\ NoFaceResolved(wk[r]))
         => /\ jobs[wk[r].jobId].status = "failed"
            /\ Artifacts(wk[r].jobId) = {}

\* C36: the Artifact records of distinct jobs carry distinct unique_key and
\* distinct filename values, also when the jobs are of one persona and
\* complete within one minute of the clock.
C36_DistinctKeys ==
  \A m1 \in media, m2 \in media :
    m1.job_id # m2.job_id
      => /\ m1.unique_key # m2.unique_key
         /\ m1.filename # m2.filename

====
